---- MODULE Spec2Model ----
(***************************************************************************)
(* A model of treverberryman/job_bot: four Python programs that fetch RSS  *)
(* feeds, filter the entries by keyword and store them, deduplicated, in   *)
(* an SQLite table.                                                        *)
(*                                                                         *)
(*   job_search_test  src/job_search_test.py  (fetcher and filter only)    *)
(*   job_bot          src/job_bot.py          (url-keyed store, /search)   *)
(*   resource_scout   src/resource_scout.py   (url-keyed store, searches)  *)
(*   resource_tracker src/resource_tracker.py (hash-keyed store, batches)  *)
(*                                                                         *)
(* A Python str is a sequence of one-character strings; a feed locator is  *)
(* a sequence of tokens in which "/" is the separator character.  None,    *)
(* SQL NULL, a missing key of a feed entry and a value that is no str are  *)
(* one-token sequences, so that every value compares with every other.     *)
(***************************************************************************)
EXTENDS Integers, Sequences, FiniteSets, TLC

VARIABLES
    app,        \* the program this process runs
    net,        \* what each feed of the fetch list serves (the environment)
    table,      \* the rows of the item table (jobs / resources), in rowid order
    jobs_df,    \* the tester's buffer: self.jobs_df / self.resources_df
    fetchLog,   \* per locator of the last fetch: visited url, failed, rows appended
    call,       \* the last operation and its arguments
    ret,        \* what the last operation returned (or that it raised)
    pre,        \* the item table as it was before the last operation
    again,      \* the last add_resources call repeated the batch of the call before it
    data_sources,   \* resource_scout: the rows of the data_sources table
    searches,       \* resource_scout: the rows of the searches table
    threads,        \* resource_scout: where each request thread of the server stands
    now,            \* the clock CURRENT_TIMESTAMP and datetime.now() read
    search_seq      \* resource_scout: the largest id AUTOINCREMENT gave a search

vars == <<app, net, table, jobs_df, fetchLog, call, ret, pre, again,
          data_sources, searches, threads, now, search_seq>>

-----------------------------------------------------------------------------
(* Values *)

NULL == <<"NULL">>
Absent == <<"ABSENT">>
NonText == <<"NONTEXT">>

(* What an operation hands back; every operation fills the fields it has *)
NoRet == [raised |-> FALSE, inserted |-> FALSE, imported |-> 0,
          total_fetched |-> 0, new_resources |-> 0, duplicates |-> 0,
          rows |-> <<>>, status |-> 0]

NoTitle == <<"N", "o", " ", "T", "i", "t", "l", "e">>
Unknown == <<"U", "n", "k", "n", "o", "w", "n">>
Remote == <<"r", "e", "m", "o", "t", "e">>
UnknownStatus == <<"u", "n", "k", "n", "o", "w", "n">>

(* str.lower() on one character *)
LowerOf(c) ==
    CASE c = "A" -> "a" [] c = "B" -> "b" [] c = "C" -> "c" [] c = "D" -> "d"
      [] c = "E" -> "e" [] c = "F" -> "f" [] c = "G" -> "g" [] c = "H" -> "h"
      [] c = "I" -> "i" [] c = "J" -> "j" [] c = "K" -> "k" [] c = "L" -> "l"
      [] c = "M" -> "m" [] c = "N" -> "n" [] c = "O" -> "o" [] c = "P" -> "p"
      [] c = "Q" -> "q" [] c = "R" -> "r" [] c = "S" -> "s" [] c = "T" -> "t"
      [] c = "U" -> "u" [] c = "V" -> "v" [] c = "W" -> "w" [] c = "X" -> "x"
      [] c = "Y" -> "y" [] c = "Z" -> "z"
      [] OTHER -> c

(* str.lower() *)
ToLower(s) == [i \in 1..Len(s) |-> LowerOf(s[i])]

(* str.upper() on one character *)
UpperOf(c) ==
    CASE c = "a" -> "A" [] c = "b" -> "B" [] c = "c" -> "C" [] c = "d" -> "D"
      [] c = "e" -> "E" [] c = "f" -> "F" [] c = "g" -> "G" [] c = "h" -> "H"
      [] c = "i" -> "I" [] c = "j" -> "J" [] c = "k" -> "K" [] c = "l" -> "L"
      [] c = "m" -> "M" [] c = "n" -> "N" [] c = "o" -> "O" [] c = "p" -> "P"
      [] c = "q" -> "Q" [] c = "r" -> "R" [] c = "s" -> "S" [] c = "t" -> "T"
      [] c = "u" -> "U" [] c = "v" -> "V" [] c = "w" -> "W" [] c = "x" -> "X"
      [] c = "y" -> "Y" [] c = "z" -> "Z"
      [] OTHER -> c

(* str.upper() *)
ToUpper(s) == [i \in 1..Len(s) |-> UpperOf(s[i])]

DigitOf(c) ==
    CASE c = "0" -> 0 [] c = "1" -> 1 [] c = "2" -> 2 [] c = "3" -> 3
      [] c = "4" -> 4 [] c = "5" -> 5 [] c = "6" -> 6 [] c = "7" -> 7
      [] c = "8" -> 8 [] c = "9" -> 9

RECURSIVE IntFrom(_, _)
IntFrom(s, n) == IF s = <<>> THEN n ELSE IntFrom(Tail(s), 10 * n + DigitOf(s[1]))

(* int(text), for a text of decimal digits *)
int(text) == IntFrom(text, 0)

(* "x or default": x when it is neither None nor empty *)
OrElse(x, default) == IF x = NULL \/ x = <<>> THEN default ELSE x

RECURSIVE LStrip(_)
LStrip(s) == IF s = <<>> THEN s ELSE IF s[1] = " " THEN LStrip(Tail(s)) ELSE s

RECURSIVE RStrip(_)
RStrip(s) ==
    IF s = <<>> THEN s
    ELSE IF s[Len(s)] = " " THEN RStrip(SubSeq(s, 1, Len(s) - 1)) ELSE s

(* str.strip() *)
Strip(s) == RStrip(LStrip(s))

RECURSIVE SplitWsFrom(_, _, _)
SplitWsFrom(s, cur, out) ==
    IF s = <<>> THEN (IF cur = <<>> THEN out ELSE Append(out, cur))
    ELSE IF s[1] = " "
         THEN SplitWsFrom(Tail(s), <<>>, IF cur = <<>> THEN out ELSE Append(out, cur))
         ELSE SplitWsFrom(Tail(s), Append(cur, s[1]), out)

(* str.split(): the maximal runs of non-blank characters *)
SplitWs(s) == SplitWsFrom(s, <<>>, <<>>)

RECURSIVE SplitOnFrom(_, _, _, _)
SplitOnFrom(s, sep, cur, out) ==
    IF s = <<>> THEN Append(out, cur)
    ELSE IF s[1] = sep
         THEN SplitOnFrom(Tail(s), sep, <<>>, Append(out, cur))
         ELSE SplitOnFrom(Tail(s), sep, Append(cur, s[1]), out)

(* str.split(sep): every segment, the empty ones included *)
SplitOn(s, sep) == SplitOnFrom(s, sep, <<>>, <<>>)

RECURSIVE Join(_, _)
(* sep.join(parts) *)
Join(sep, parts) ==
    IF parts = <<>> THEN <<>>
    ELSE IF Len(parts) = 1 THEN parts[1]
    ELSE parts[1] \o sep \o Join(sep, Tail(parts))

(* needle in hay *)
Contains(needle, hay) ==
    \E i \in 0..(Len(hay) - Len(needle)) :
        SubSeq(hay, i + 1, i + Len(needle)) = needle

(* One pattern character against one text character under re.IGNORECASE:  *)
(* "." is any character, every other character of the alphabet is itself. *)
AtomMatches(p, c) == p = "." \/ LowerOf(p) = LowerOf(c)

(* re.search(pat, text, re.IGNORECASE) is not None, for patterns over      *)
(* letters, blanks, "." and "|"                                            *)
ReSearch(pat, text) ==
    LET alts == SplitOn(pat, "|")
    IN  \E a \in 1..Len(alts) :
            \E i \in 0..(Len(text) - Len(alts[a])) :
                \A j \in 1..Len(alts[a]) : AtomMatches(alts[a][j], text[i + j])

-----------------------------------------------------------------------------
(* The feed fetcher: JobSearchTester / ResourceSearchTester.test_rss_feeds *)

(* The fetch list of job_bot and job_search_test *)
rss_feeds(formatted_keywords) ==
    << <<"https:", "/", "/", "weworkremotely.com", "/", "categories", "/",
         "remote-programming-jobs.rss">>,
       <<"https:", "/", "/", "remoteok.io", "/", "remote-dev-jobs.rss">>,
       <<"https:", "/", "/", "remotive.com", "/", "remote-jobs", "/", "feed", "/", "qa">>,
       <<"https:", "/", "/", "jobicy.com", "/",
         "?feed=job_feed&job_categories=technical-support&job_types=full-time&search_region=usa">>,
       <<"https:", "/", "/", "rsshub.app", "/", "github", "/", "job", "/">>
           \o formatted_keywords >>

(* The fetch list of resource_scout: the custom feed, or the default list, *)
(* which the source leaves empty.  "if custom_feed" is false for None and  *)
(* for the empty string.                                                   *)
scout_feeds(custom_feed) ==
    IF custom_feed # NULL /\ custom_feed # <<>> THEN <<custom_feed>> ELSE <<>>

(* entry.get(key, default) *)
Get(entry, key, default) == IF entry[key] = Absent THEN default ELSE entry[key]

(* description = entry.get('description', ''), falling back to the summary *)
DescriptionOf(entry) ==
    LET description == Get(entry, "description", <<>>)
    IN  IF description = <<>> /\ entry["summary"] # Absent
        THEN Get(entry, "summary", <<>>)
        ELSE description

(* feed_url.split('/')[2] raises IndexError: fewer than three segments *)
SourceRaises(segments) == Len(segments) < 3

(* The dict built from one entry; segments is feed_url.split('/') *)
MakeItem(entry, segments, location, a) ==
    LET base == [title |-> Get(entry, "title", NoTitle),
                 company |-> Get(entry, "author", Unknown),
                 url |-> Get(entry, "link", <<>>),
                 description |-> DescriptionOf(entry),
                 date_posted |-> Get(entry, "published", <<>>),
                 source |-> segments[3]]
    IN  IF a = "resource_scout"
        THEN [title |-> base.title, company |-> base.company, url |-> base.url,
              description |-> base.description, date_posted |-> base.date_posted,
              source |-> base.source, location |-> location,
              work_status |-> IF Contains(Remote, ToLower(location))
                              THEN Remote ELSE UnknownStatus]
        ELSE base

(* The first keyword tested calls .lower() on the title, which raises      *)
(* AttributeError when the title is no str; no keyword, no call.           *)
MatchRaises(entry, words) == words # <<>> /\ entry["title"] = NonText

(* any(k.lower() in title.lower() or k.lower() in description.lower()      *)
(*     for k in keywords.split())                                          *)
KeywordMatch(item, words) ==
    \E k \in 1..Len(words) :
        \/ Contains(ToLower(words[k]), ToLower(item.title))
        \/ Contains(ToLower(words[k]), ToLower(item.description))

RECURSIVE ProcessEntries(_, _, _, _, _, _)
(* The loop over feed.entries inside the try block: rows are appended to   *)
(* the shared list as they match; an exception leaves the loop.            *)
ProcessEntries(entries, segments, words, location, a, acc) ==
    IF entries = <<>> THEN [rows |-> acc, failed |-> FALSE]
    ELSE LET entry == Head(entries)
         IN  IF SourceRaises(segments) \/ MatchRaises(entry, words)
             THEN [rows |-> acc, failed |-> TRUE]
             ELSE LET item == MakeItem(entry, segments, location, a)
                  IN  ProcessEntries(Tail(entries), segments, words, location, a,
                                     IF KeywordMatch(item, words)
                                     THEN Append(acc, item) ELSE acc)

(* One iteration of "for feed_url in rss_feeds": try ... except Exception  *)
TryFeed(feed_url, served, words, location, a, acc) ==
    IF served.raises THEN [rows |-> acc, failed |-> TRUE]
    ELSE ProcessEntries(served.entries, SplitOn(feed_url, "/"), words,
                        location, a, acc)

RECURSIVE FetchLoopAbort(_, _, _, _, _, _, _, _)
(* FetchLoop with the try block around the whole loop: the first failing   *)
(* locator ends the fetch                                                  *)
FetchLoopAbort(feeds, serves, i, words, location, a, acc, log) ==
    IF i > Len(feeds) THEN [rows |-> acc, log |-> log]
    ELSE LET r == TryFeed(feeds[i], serves[i], words, location, a, acc)
             entry == [url |-> feeds[i], failed |-> r.failed,
                       from |-> Len(acc), to |-> Len(r.rows)]
         IN  IF r.failed THEN [rows |-> r.rows, log |-> Append(log, entry)]
             ELSE FetchLoopAbort(feeds, serves, i + 1, words, location, a,
                                 r.rows, Append(log, entry))

RECURSIVE FetchLoop(_, _, _, _, _, _, _, _)
FetchLoop(feeds, serves, i, words, location, a, acc, log) ==
    IF i > Len(feeds) THEN [rows |-> acc, log |-> log]
    ELSE LET r == TryFeed(feeds[i], serves[i], words, location, a, acc)
         IN  FetchLoop(feeds, serves, i + 1, words, location, a, r.rows,
                       Append(log, [url |-> feeds[i], failed |-> r.failed,
                                    from |-> Len(acc), to |-> Len(r.rows)]))

(* test_rss_feeds(keywords, location[, custom_feed]): the new buffer and   *)
(* the log of the locators visited                                         *)
test_rss_feeds(keywords, location, feeds, serves, a) ==
    FetchLoop(feeds, serves, 1, SplitWs(keywords), location, a, <<>>, <<>>)

(* '+'.join(keywords.split()) *)
FormattedKeywords(keywords) == Join(<<"+">>, SplitWs(keywords))

-----------------------------------------------------------------------------
(* The skill filter: filter_jobs / filter_resources *)

(* "if required_skills" / "if exclude_keywords": given and not empty *)
Truthy(terms) == terms.given /\ terms.list # <<>>

(* all(skill.lower() in description.lower() or skill.lower() in            *)
(*     title.lower() for skill in required_skills)                         *)
HasAllSkills(row, skills) ==
    \A k \in 1..Len(skills) :
        \/ Contains(ToLower(skills[k]), ToLower(row.description))
        \/ Contains(ToLower(skills[k]), ToLower(row.title))

(* df[~df['title'].str.contains(pattern, case=False, na=False)], then the  *)
(* same on the description: the joined terms are a regular expression      *)
ExcludeRows(df, exclude_keywords) ==
    LET pattern == Join(<<"|">>, exclude_keywords)
        TitleClear(row) == ~ReSearch(pattern, row.title)
        DescriptionClear(row) == ~ReSearch(pattern, row.description)
    IN  SelectSeq(SelectSeq(df, TitleClear), DescriptionClear)

filter_jobs(df, required_skills, exclude_keywords) ==
    IF df = <<>> THEN df
    ELSE LET Skilled(row) == HasAllSkills(row, required_skills.list)
             d1 == IF Truthy(required_skills) THEN SelectSeq(df, Skilled) ELSE df
         IN  IF Truthy(exclude_keywords) /\ d1 # <<>>
             THEN ExcludeRows(d1, exclude_keywords.list)
             ELSE d1

NoTerms == [given |-> FALSE, list |-> <<>>]

-----------------------------------------------------------------------------
(* The url-keyed stores: JobTracker (job_bot), resourceTracker (scout) *)

(* dict.get(key, default) on a row handed to the store *)
DictGet(d, key, default) == IF key \in DOMAIN d THEN d[key] ELSE default

(* INTEGER PRIMARY KEY AUTOINCREMENT: one more than the largest id given.  *)
(* No statement of these programs deletes an item row.                     *)
NextId(rows) == IF rows = <<>> THEN 1 ELSE rows[Len(rows)].id + 1

(* UrlExists for a store that keeps an entry without a link with url NULL: *)
(* no row is found for an empty url                                        *)
UrlExistsNonEmpty(rows, url) ==
    url # <<>> /\ \E i \in 1..Len(rows) : rows[i].url = url

(* SELECT * FROM jobs WHERE url = ?  finds a row *)
UrlExists(rows, url) == \E i \in 1..Len(rows) : rows[i].url = url

(* INSERT INTO jobs (title, company, url, description, date_posted,        *)
(* source); date_added defaults to CURRENT_TIMESTAMP                       *)
JobRow(rows, job) ==
    [id |-> NextId(rows), title |-> job.title, company |-> job.company,
     url |-> job.url, description |-> job.description,
     date_posted |-> job.date_posted, source |-> job.source,
     date_added |-> now]

(* add_job written as INSERT OR REPLACE: a colliding url overwrites the row *)
add_job_replace(rows, job) ==
    IF UrlExists(rows, job.url)
    THEN [rows |-> [i \in 1..Len(rows) |->
                       IF rows[i].url = job.url
                       THEN [JobRow(rows, job) EXCEPT !.id = rows[i].id]
                       ELSE rows[i]],
          value |-> TRUE]
    ELSE [rows |-> Append(rows, JobRow(rows, job)), value |-> TRUE]

(* JobTracker.add_job: the duplicate check, then the insert *)
add_job(rows, job) ==
    IF UrlExists(rows, job.url)
    THEN [rows |-> rows, value |-> FALSE]
    ELSE [rows |-> Append(rows, JobRow(rows, job)), value |-> TRUE]

(* INSERT INTO resources (title, company, url, description, date_posted,   *)
(* source, location, work_status), each value read with resource.get;      *)
(* date_added defaults to CURRENT_TIMESTAMP                                *)
ResourceRow(rows, resource) ==
    [id |-> NextId(rows), date_added |-> now,
     title |-> DictGet(resource, "title", <<>>),
     company |-> DictGet(resource, "company", <<>>),
     url |-> DictGet(resource, "url", <<>>),
     description |-> DictGet(resource, "description", <<>>),
     date_posted |-> DictGet(resource, "date_posted", <<>>),
     source |-> DictGet(resource, "source", <<>>),
     location |-> DictGet(resource, "location", <<>>),
     work_status |-> DictGet(resource, "work_status", <<>>)]

(* resourceTracker.add_resource *)
add_resource(rows, resource) ==
    IF UrlExists(rows, resource.url)
    THEN [rows |-> rows, value |-> FALSE]
    ELSE [rows |-> Append(rows, ResourceRow(rows, resource)), value |-> TRUE]

RECURSIVE JobImportLoopCountsAll(_, _, _, _)
(* JobImportLoop ignoring what add_job returns *)
JobImportLoopCountsAll(rows, df, i, new_count) ==
    IF i > Len(df) THEN [rows |-> rows, new_count |-> new_count]
    ELSE JobImportLoopCountsAll(add_job(rows, df[i]).rows, df, i + 1,
                                new_count + 1)

RECURSIVE JobImportLoop(_, _, _, _)
(* search_jobs: for _, row in df.iterrows(): count the rows add_job took *)
JobImportLoop(rows, df, i, new_count) ==
    IF i > Len(df) THEN [rows |-> rows, new_count |-> new_count]
    ELSE LET r == add_job(rows, df[i])
         IN  JobImportLoop(r.rows, df, i + 1,
                           IF r.value THEN new_count + 1 ELSE new_count)

RECURSIVE ResourceImportLoop(_, _, _, _)
(* search_resources: for _, row in df.iterrows(): add_resource, count *)
ResourceImportLoop(rows, df, i, new_count) ==
    IF i > Len(df) THEN [rows |-> rows, new_count |-> new_count]
    ELSE ResourceImportLoop(add_resource(rows, df[i]).rows, df, i + 1,
                            new_count + 1)

-----------------------------------------------------------------------------
(* resource_scout: data sources and saved searches.  A column of SQL type  *)
(* INTEGER that may be NULL holds a set of at most one number.             *)

RSS == <<"R", "S", "S">>
API == <<"A", "P", "I">>
MyDataSource ==
    <<"M", "y", " ", "D", "a", "t", "a", " ", "S", "o", "u", "r", "c", "e">>
General == <<"G", "e", "n", "e", "r", "a", "l">>
MySearch == <<"M", "y", " ", "S", "e", "a", "r", "c", "h">>
Python == <<"p", "y", "t", "h", "o", "n">>

(* resourceTracker.add_data_source *)
add_data_source(rows, name, source_type, best_for, source_url) ==
    Append(rows, [id |-> NextId(rows), name |-> name, source_type |-> source_type,
                  best_for |-> best_for, source_url |-> source_url])

(* resourceTracker.add_search; is_active is a text of digits, which the    *)
(* INTEGER column stores as the number.  id INTEGER PRIMARY KEY            *)
(* AUTOINCREMENT: one more than the largest id ever given, so the id of a  *)
(* deleted search is not given again                                       *)
add_search(rows, name, keywords, location, is_active, data_source_id) ==
    Append(rows, [id |-> search_seq + 1, name |-> name, keywords |-> keywords,
                  location |-> location, is_active |-> int(is_active),
                  data_source_id |-> data_source_id])

(* get_search_by_id finds a row *)
SearchExists(search_rows, search_id) ==
    \E i \in 1..Len(search_rows) : search_rows[i].id = search_id

(* resourceTracker.get_search_by_id, for an id that SearchExists: the row  *)
(* LEFT JOINed with its data source; no source, NULL type and url          *)
get_search_by_id(search_rows, source_rows, search_id) ==
    LET s == search_rows[CHOOSE i \in 1..Len(search_rows) :
                            search_rows[i].id = search_id]
        joined == {j \in 1..Len(source_rows) :
                      source_rows[j].id \in s.data_source_id}
    IN  [id |-> s.id, name |-> s.name, keywords |-> s.keywords,
         location |-> s.location, is_active |-> s.is_active # 0,
         data_source_id |-> s.data_source_id,
         data_source_type |-> IF joined = {} THEN NULL
                              ELSE source_rows[CHOOSE j \in joined : TRUE].source_type,
         data_source_url |-> IF joined = {} THEN NULL
                             ELSE source_rows[CHOOSE j \in joined : TRUE].source_url]

(* IsRss taking every data source that has a type for a feed *)
IsRssAnyType(s) ==
    /\ s.data_source_type # NULL
    /\ s.data_source_type # <<>>

(* s['data_source_type'] and s['data_source_type'].upper() == 'RSS' *)
IsRss(s) ==
    /\ s.data_source_type # NULL
    /\ s.data_source_type # <<>>
    /\ ToUpper(s.data_source_type) = RSS

(* int(ds_id) if ds_id else None *)
DataSourceId(ds_id) == IF ds_id = <<>> THEN {} ELSE {int(ds_id)}

(* update_search assigning every column, given or not *)
update_search_all_columns(rows, search_id, name, keywords, location, is_active, data_source_id) ==
    [i \in 1..Len(rows) |->
        IF rows[i].id = search_id
        THEN [rows[i] EXCEPT
                 !.name = name, !.keywords = keywords, !.location = location,
                 !.is_active = IF TRUE \in is_active THEN 1 ELSE 0,
                 !.data_source_id = data_source_id]
        ELSE rows[i]]

(* resourceTracker.update_search: UPDATE searches SET ... WHERE id = ?     *)
(* with one assignment for each argument that is not None; without any,    *)
(* no statement is run.  None is NULL for a text and the empty set for     *)
(* is_active (a set of at most one truth value) and for data_source_id.    *)
update_search(rows, search_id, name, keywords, location, is_active, data_source_id) ==
    [i \in 1..Len(rows) |->
        IF rows[i].id = search_id
        THEN [rows[i] EXCEPT
                 !.name = IF name # NULL THEN name ELSE @,
                 !.keywords = IF keywords # NULL THEN keywords ELSE @,
                 !.location = IF location # NULL THEN location ELSE @,
                 !.is_active = IF is_active # {}
                               THEN (IF TRUE \in is_active THEN 1 ELSE 0)
                               ELSE @,
                 !.data_source_id = IF data_source_id # {}
                                    THEN data_source_id ELSE @]
        ELSE rows[i]]

(* resourceTracker.delete_search: DELETE FROM searches WHERE id = ? *)
delete_search(rows, search_id) ==
    SelectSeq(rows, LAMBDA r : r.id # search_id)

-----------------------------------------------------------------------------
(* The hash-keyed store: resourceDatabase (resource_tracker) *)

(* hashlib.md5(text.encode()).hexdigest(): equal texts, equal digests;     *)
(* distinct texts are taken to have distinct digests                       *)
Md5(text) == <<"md5:">> \o text

(* .lower() raises AttributeError on a field that is no str *)
HashRaises(resource) ==
    \/ resource.title = NULL
    \/ resource.company = NULL
    \/ resource.description = NULL

(* resourceDatabase.generate_resource_hash *)
generate_resource_hash(resource) ==
    Md5(Strip(ToLower(resource.title)) \o Strip(ToLower(resource.company))
        \o Strip(ToLower(resource.description)))

(* SELECT id FROM resources WHERE resource_hash = ?  finds a row *)
HashExists(rows, resource_hash) ==
    \E i \in 1..Len(rows) : rows[i].resource_hash = resource_hash

(* IntegrityError for a table whose url column is not declared UNIQUE *)
IntegrityErrorNoUrl(rows, resource, resource_hash) ==
    \/ resource.title = NULL
    \/ \E i \in 1..Len(rows) : rows[i].resource_hash = resource_hash

(* The table's constraints refuse the row with sqlite3.IntegrityError:     *)
(* url UNIQUE, resource_hash UNIQUE, title NOT NULL                        *)
IntegrityError(rows, resource, resource_hash) ==
    \/ resource.title = NULL
    \/ \E i \in 1..Len(rows) : rows[i].url # NULL /\ rows[i].url = resource.url
    \/ HashExists(rows, resource_hash)

(* INSERT INTO resources (title, company, url, description, date_posted,   *)
(* source, date_added, resource_hash) with datetime.now().isoformat() for   *)
(* date_added; status defaults to 'new', notes to NULL                     *)
TrackedRow(rows, resource, resource_hash) ==
    [id |-> NextId(rows), title |-> resource.title, company |-> resource.company,
     url |-> resource.url, description |-> resource.description,
     date_posted |-> resource.date_posted, source |-> resource.source,
     date_added |-> now, resource_hash |-> resource_hash,
     status |-> <<"n", "e", "w">>, notes |-> NULL]

(* AddOne counting a row the constraints refused as a new resource *)
AddOneCountsRefused(st, resource) ==
    LET resource_hash == generate_resource_hash(resource)
    IN  IF ~HashExists(st.rows, resource_hash)
        THEN IF IntegrityError(st.rows, resource, resource_hash)
             THEN [st EXCEPT !.new_resources = @ + 1]
             ELSE [st EXCEPT !.rows = Append(@, TrackedRow(st.rows, resource, resource_hash)),
                             !.new_resources = @ + 1]
        ELSE [st EXCEPT !.duplicates = @ + 1]

(* AddOne counting a resource whose hash is already stored as new *)
AddOneCountsExisting(st, resource) ==
    LET resource_hash == generate_resource_hash(resource)
    IN  IF ~HashExists(st.rows, resource_hash)
        THEN IF IntegrityError(st.rows, resource, resource_hash)
             THEN [st EXCEPT !.duplicates = @ + 1]
             ELSE [st EXCEPT !.rows = Append(@, TrackedRow(st.rows, resource, resource_hash)),
                             !.new_resources = @ + 1]
        ELSE [st EXCEPT !.new_resources = @ + 1]

(* One iteration of the loop of add_resources *)
AddOne(st, resource) ==
    LET resource_hash == generate_resource_hash(resource)
    IN  IF ~HashExists(st.rows, resource_hash)
        THEN IF IntegrityError(st.rows, resource, resource_hash)
             THEN [st EXCEPT !.duplicates = @ + 1]
             ELSE [st EXCEPT !.rows = Append(@, TrackedRow(st.rows, resource, resource_hash)),
                             !.new_resources = @ + 1]
        ELSE [st EXCEPT !.duplicates = @ + 1]

RECURSIVE AddLoop(_, _, _)
AddLoop(st, resources_df, i) ==
    IF i > Len(resources_df) THEN st
    ELSE IF HashRaises(resources_df[i]) THEN [st EXCEPT !.raised = TRUE]
    ELSE AddLoop(AddOne(st, resources_df[i]), resources_df, i + 1)

(* resourceDatabase.add_resources: an exception leaves before commit(),    *)
(* and the connection's uncommitted inserts are rolled back                *)
add_resources(rows, resources_df) ==
    LET st == AddLoop([rows |-> rows, new_resources |-> 0, duplicates |-> 0,
                       raised |-> FALSE], resources_df, 1)
    IN  IF st.raised
        THEN [rows |-> rows, raised |-> TRUE, new_resources |-> 0, duplicates |-> 0]
        ELSE [rows |-> st.rows, raised |-> FALSE,
              new_resources |-> st.new_resources, duplicates |-> st.duplicates]

(* request.form.get(key, default) *)
FormGet(value, default) == IF value = Absent THEN default ELSE value

PythonDeveloper ==
    <<"p", "y", "t", "h", "o", "n", " ", "d", "e", "v", "e", "l", "o", "p", "e", "r">>

-----------------------------------------------------------------------------
(* Reading the stores, and the updates of resource_tracker *)

RECURSIVE LikeMatch(_, _)
(* text LIKE pat of SQLite: % stands for any run of characters, _ for any  *)
(* one character, and letters match without regard to case                 *)
LikeMatch(pat, text) ==
    IF pat = <<>> THEN text = <<>>
    ELSE IF Head(pat) = "%"
         THEN \/ LikeMatch(Tail(pat), text)
              \/ text # <<>> /\ LikeMatch(pat, Tail(text))
    ELSE /\ text # <<>>
         /\ Head(pat) = "_" \/ LowerOf(Head(pat)) = LowerOf(Head(text))
         /\ LikeMatch(Tail(pat), Tail(text))

(* column LIKE ?  with the parameter f"%{search_query}%"; NULL is LIKE     *)
(* nothing                                                                 *)
Like(column, search_query) ==
    /\ column # NULL
    /\ LikeMatch(<<"%">> \o search_query \o <<"%">>, column)

(* JobTracker.get_jobs: WHERE title LIKE ? OR company LIKE ?  when         *)
(* search_query is given and not empty; no ORDER BY, and the table is read *)
(* in rowid order                                                          *)
get_jobs(rows, search_query) ==
    IF search_query = Absent \/ search_query = <<>> THEN rows
    ELSE SelectSeq(rows, LAMBDA r : \/ Like(r.title, search_query)
                                    \/ Like(r.company, search_query))

(* resourceTracker.get_resources: the statement of get_jobs, on resources *)
get_resources(rows, search_query) == get_jobs(rows, search_query)

RECURSIVE get_all_resources(_)
(* resourceDatabase.get_all_resources: SELECT * FROM resources ORDER BY    *)
(* date_added DESC.  The rows' largest date_added comes first; rows of one *)
(* date_added stay in rowid order                                          *)
get_all_resources(rows) ==
    IF rows = <<>> THEN <<>>
    ELSE LET first == CHOOSE i \in 1..Len(rows) :
                          /\ \A j \in 1..Len(rows) :
                                 rows[j].date_added <= rows[i].date_added
                          /\ \A j \in 1..(i - 1) :
                                 rows[j].date_added < rows[i].date_added
         IN  <<rows[first]>> \o
             get_all_resources(SubSeq(rows, 1, first - 1)
                               \o SubSeq(rows, first + 1, Len(rows)))

(* update_resource_status without its WHERE clause: every row is updated *)
update_resource_status_all(rows, resource_id, status) ==
    [i \in 1..Len(rows) |-> [rows[i] EXCEPT !.status = status]]

(* resourceDatabase.update_resource_status:                                *)
(* UPDATE resources SET status = ? WHERE id = ?                            *)
update_resource_status(rows, resource_id, status) ==
    [i \in 1..Len(rows) |->
        IF rows[i].id = resource_id THEN [rows[i] EXCEPT !.status = status]
        ELSE rows[i]]

(* add_resource_note written as SET notes = notes || ?: the note is put   *)
(* after the notes the row has                                             *)
add_resource_note_append(rows, resource_id, note) ==
    [i \in 1..Len(rows) |->
        IF rows[i].id = resource_id
        THEN [rows[i] EXCEPT !.notes = (IF @ = NULL THEN <<>> ELSE @) \o note]
        ELSE rows[i]]

(* add_resource_note written as INSERT OR REPLACE INTO resources (id,      *)
(* notes): the row is made anew and its other columns are lost             *)
add_resource_note_replace(rows, resource_id, note) ==
    [i \in 1..Len(rows) |->
        IF rows[i].id = resource_id
        THEN [rows[i] EXCEPT !.notes = note, !.company = NULL,
                             !.description = NULL, !.date_posted = NULL,
                             !.source = NULL]
        ELSE rows[i]]

(* resourceDatabase.add_resource_note:                                     *)
(* UPDATE resources SET notes = ? WHERE id = ?                             *)
add_resource_note(rows, resource_id, note) ==
    [i \in 1..Len(rows) |->
        IF rows[i].id = resource_id THEN [rows[i] EXCEPT !.notes = note]
        ELSE rows[i]]

-----------------------------------------------------------------------------
(* The environment: what the feeds serve, and the texts requests carry *)

EntryA == [title |-> <<"A", "b">>, author |-> Absent, link |-> <<"u">>,
           description |-> <<>>, summary |-> <<"b">>, published |-> Absent]
EntryB == [title |-> <<"b">>, author |-> <<"c">>, link |-> <<"u">>,
           description |-> <<"a">>, summary |-> Absent, published |-> <<"d">>]
EntryC == [title |-> Absent, author |-> Absent, link |-> Absent,
           description |-> Absent, summary |-> Absent, published |-> Absent]
EntryD == [title |-> NonText, author |-> Absent, link |-> <<"v">>,
           description |-> <<"a">>, summary |-> Absent, published |-> Absent]

FeedFails == [raises |-> TRUE, entries |-> <<>>]
FeedBC == [raises |-> FALSE, entries |-> <<EntryB, EntryC>>]
FeedAD == [raises |-> FALSE, entries |-> <<EntryA, EntryD>>]

(* What a feed may serve; resource_tracker fetches nothing *)
FeedOutcomes(a) ==
    IF a = "resource_tracker" THEN {} ELSE {FeedFails, FeedBC, FeedAD}

KeywordTexts == { <<>>, <<" ">>, <<"a">>, <<"B", " ", "t">> }

SkillLists ==
    { NoTerms,
      [given |-> TRUE, list |-> <<>>],
      [given |-> TRUE, list |-> << <<"B">> >>],
      [given |-> TRUE, list |-> << <<"a">>, <<"b">> >>] }

ExcludeLists ==
    { NoTerms,
      [given |-> TRUE, list |-> << <<"A">> >>],
      [given |-> TRUE, list |-> << <<"t">>, <<"c">> >>],
      [given |-> TRUE, list |-> << <<"a", ".">> >>] }

JobU1 == [title |-> <<"a">>, company |-> <<"c">>, url |-> <<"u">>,
          description |-> <<"b">>, date_posted |-> <<>>, source |-> <<"h">>]
JobU2 == [title |-> <<"b">>, company |-> <<"c">>, url |-> <<"u">>,
          description |-> <<>>, date_posted |-> <<"d">>, source |-> <<"h">>]
JobE1 == [title |-> <<"a">>, company |-> Unknown, url |-> <<>>,
          description |-> <<"b">>, date_posted |-> <<>>, source |-> <<"h">>]

JobDicts == {JobU1, JobU2, JobE1}

ResU1 == [title |-> <<"a">>, company |-> <<"c">>, url |-> <<"u">>,
          description |-> <<"b">>, date_posted |-> <<>>, source |-> <<"h">>,
          location |-> Remote, work_status |-> Remote]
ResU2 == [title |-> <<"b">>, company |-> <<"c">>, url |-> <<"u">>,
          description |-> <<>>, date_posted |-> <<"d">>, source |-> <<"h">>]
ResE1 == [title |-> <<"a">>, url |-> <<>>]

ResourceDicts == {ResU1, ResU2, ResE1}

(* Candidates of the hash-keyed store.  T1 and T2 have one hash and two    *)
(* urls, T2 and T3 one url and two hashes, T4 has no title.                *)
T1 == [title |-> <<"a", "b">>, company |-> <<"c">>, url |-> <<"u">>,
       description |-> <<>>, date_posted |-> <<>>, source |-> <<"h">>]
T2 == [title |-> <<" ", "A">>, company |-> <<"b", "C", " ">>, url |-> <<"v">>,
       description |-> <<>>, date_posted |-> <<"d">>, source |-> <<"h">>]
T3 == [title |-> <<"b">>, company |-> <<"c">>, url |-> <<"v">>,
       description |-> <<>>, date_posted |-> <<>>, source |-> <<"h">>]
T4 == [title |-> NULL, company |-> <<"c">>, url |-> <<"w">>,
       description |-> <<>>, date_posted |-> <<>>, source |-> <<"h">>]

TrackedDicts == {T1, T2, T3, T4}

MaxBatch == 2

RECURSIVE SeqsUpTo(_, _)
SeqsUpTo(S, n) ==
    IF n = 0 THEN {<<>>}
    ELSE LET shorter == SeqsUpTo(S, n - 1)
         IN  shorter \cup {Append(q, x) : q \in shorter, x \in S}

Batches == SeqsUpTo(TrackedDicts, MaxBatch)

LocationTexts == { Absent, <<"R", "e", "m", "o", "t", "e">>, <<>> }

(* The longest fetch list of a program: resource_scout fetches at most the *)
(* one feed of a data source, and net says what that feed serves whatever  *)
(* its locator is                                                          *)
NumFeeds(a) ==
    CASE a = "job_search_test" -> Len(rss_feeds(<<>>))
      [] a = "job_bot" -> Len(rss_feeds(<<>>))
      [] a = "resource_scout" -> Len(scout_feeds(<<"f">>))
      [] OTHER -> 0

Apps == {"job_search_test", "job_bot", "resource_scout", "resource_tracker"}

(* resource_scout: the request threads of the server and the forms posted *)
MaxThreads == 2
MaxSources == 1
MaxSearches == 1

ThreadIds == 1..MaxThreads
Idle == [op |-> "idle"]

(* The forms of POST /datasources: source_type and source_url *)
DataSourceForms ==
    { [source_type |-> Absent, source_url |-> <<"http:", "/", "/", "h", "/", "f">>],
      [source_type |-> <<"r", "s", "s">>, source_url |-> <<"f">>],
      [source_type |-> Absent, source_url |-> Absent],
      [source_type |-> API, source_url |-> <<"http:", "/", "/", "h", "/", "f">>] }

SearchKeywordTexts == { Absent, <<"a">>, <<" ">> }
DataSourceIdTexts == { Absent, <<"1">>, <<"2">> }
SearchIds == 1..(MaxSearches + 1)

(* The clock is read up to MaxClock *)
MaxClock == 2

(* The <status> of POST /api/resources/<id>/status/<status>, the ids asked *)
(* for, and the q of GET /jobs and GET /resources                          *)
New == <<"n", "e", "w">>
Applied == <<"a", "p", "p", "l", "i", "e", "d">>
StatusTexts == { New, Applied, <<"x">> }
ItemIds == 1..Cardinality(TrackedDicts)
(* Batches of one candidate, and one whose second candidate has no title *)
StoreBatches == {b \in Batches : Len(b) = 1} \cup {<<T1, T4>>, <<T3, T4>>}
QueryTexts == { Absent, <<>>, <<"A">>, <<"_">>, <<"c", "%">> }

-----------------------------------------------------------------------------
(* job_search_test.py: the tester object on its own *)

TestRssFeeds(keywords) ==
    /\ UNCHANGED <<now, search_seq>>
    /\ app = "job_search_test"
    /\ \E f \in {test_rss_feeds(keywords, Remote,
                                rss_feeds(FormattedKeywords(keywords)), net, app)} :
           /\ jobs_df' = f.rows
           /\ fetchLog' = f.log
           /\ ret' = [NoRet EXCEPT !.rows = f.rows]
    /\ call' = [op |-> "test_rss_feeds", keywords |-> keywords]
    /\ pre' = table
    /\ again' = FALSE
    /\ UNCHANGED <<app, net, table, data_sources, searches, threads>>

FilterJobs(required_skills, exclude_keywords) ==
    /\ UNCHANGED <<now, search_seq>>
    /\ app = "job_search_test"
    /\ ret' = [NoRet EXCEPT
                  !.rows = filter_jobs(jobs_df, required_skills, exclude_keywords)]
    /\ call' = [op |-> "filter_jobs", required_skills |-> required_skills,
                exclude_keywords |-> exclude_keywords]
    /\ pre' = table
    /\ again' = FALSE
    /\ UNCHANGED <<app, net, table, jobs_df, fetchLog, data_sources, searches, threads>>

-----------------------------------------------------------------------------
(* job_bot.py *)

(* tracker.add_job(job), called on the store directly *)
AddJob(job) ==
    /\ UNCHANGED <<now, search_seq>>
    /\ app = "job_bot"
    /\ \E r \in {add_job(table, job)} :
           /\ table' = r.rows
           /\ ret' = [NoRet EXCEPT !.inserted = r.value]
    /\ call' = [op |-> "add_job", item |-> job]
    /\ pre' = table
    /\ again' = FALSE
    /\ UNCHANGED <<app, net, jobs_df, fetchLog, data_sources, searches, threads>>

(* POST /search *)
search_jobs(form_keywords) ==
    /\ UNCHANGED <<now, search_seq>>
    /\ app = "job_bot"
    /\ LET keywords == FormGet(form_keywords, PythonDeveloper)
       IN  \E f \in {test_rss_feeds(keywords, Remote,
                                    rss_feeds(FormattedKeywords(keywords)), net, app)} :
           \E df \in {filter_jobs(f.rows, NoTerms, NoTerms)} :
           \E r \in {JobImportLoop(table, df, 1, 0)} :
               /\ jobs_df' = f.rows
               /\ fetchLog' = f.log
               /\ table' = r.rows
               /\ ret' = [NoRet EXCEPT !.imported = r.new_count,
                                        !.total_fetched = Len(df),
                                        !.status = 200]
    /\ call' = [op |-> "search_jobs", keywords |-> form_keywords]
    /\ pre' = table
    /\ again' = FALSE
    /\ UNCHANGED <<app, net, data_sources, searches, threads>>

-----------------------------------------------------------------------------
(* resource_scout.py: the store, POST /search, data sources and saved       *)
(* searches, one request at a time                                         *)

(* tracker.add_resource(resource), called on the store directly *)
AddResource(resource) ==
    /\ UNCHANGED <<now, search_seq>>
    /\ app = "resource_scout"
    /\ \E r \in {add_resource(table, resource)} :
           /\ table' = r.rows
           /\ ret' = [NoRet EXCEPT !.inserted = r.value]
    /\ call' = [op |-> "add_resource", item |-> resource]
    /\ pre' = table
    /\ again' = FALSE
    /\ UNCHANGED <<app, net, jobs_df, fetchLog, data_sources, searches, threads>>

(* POST /search: test_rss_feeds is called without a custom feed *)
search_resources(form_keywords, form_location) ==
    /\ UNCHANGED <<now, search_seq>>
    /\ app = "resource_scout"
    /\ LET keywords == FormGet(form_keywords, PythonDeveloper)
           location == FormGet(form_location, Remote)
       IN  \E f \in {test_rss_feeds(keywords, location, scout_feeds(NULL), net, app)} :
           \E df \in {filter_jobs(f.rows, NoTerms, NoTerms)} :
           \E r \in {ResourceImportLoop(table, df, 1, 0)} :
               /\ jobs_df' = f.rows
               /\ fetchLog' = f.log
               /\ table' = r.rows
               /\ ret' = [NoRet EXCEPT !.imported = r.new_count,
                                        !.total_fetched = Len(df),
                                        !.status = 200]
    /\ call' = [op |-> "search_resources", keywords |-> form_keywords,
                location |-> form_location]
    /\ pre' = table
    /\ again' = FALSE
    /\ UNCHANGED <<app, net, data_sources, searches, threads>>

(* POST /datasources *)
manage_data_sources(name, source_type, best_for, source_url) ==
    /\ UNCHANGED <<now, search_seq>>
    /\ app = "resource_scout"
    /\ Len(data_sources) < MaxSources
    /\ data_sources' = add_data_source(data_sources,
                                        FormGet(name, MyDataSource),
                                        FormGet(source_type, RSS),
                                        FormGet(best_for, General),
                                        FormGet(source_url, <<>>))
    /\ call' = [op |-> "manage_data_sources"]
    /\ ret' = [NoRet EXCEPT !.status = 302]
    /\ pre' = table
    /\ again' = FALSE
    /\ UNCHANGED <<app, net, table, jobs_df, fetchLog, searches, threads>>

(* POST /savedsearches *)
create_saved_search(name, keywords, location, is_active, ds_id) ==
    /\ app = "resource_scout"
    /\ search_seq < MaxSearches
    /\ search_seq' = search_seq + 1
    /\ UNCHANGED now
    /\ searches' = add_search(searches,
                               FormGet(name, MySearch),
                               FormGet(keywords, <<>>),
                               FormGet(location, <<>>),
                               FormGet(is_active, <<"1">>),
                               DataSourceId(FormGet(ds_id, <<>>)))
    /\ call' = [op |-> "create_saved_search"]
    /\ ret' = [NoRet EXCEPT !.status = 302]
    /\ pre' = table
    /\ again' = FALSE
    /\ UNCHANGED <<app, net, table, jobs_df, fetchLog, data_sources, threads>>

(* POST /savedsearches/<search_id>/run: an unknown id is answered 404, a   *)
(* source that is not RSS with the redirect; an RSS source is fetched,     *)
(* filtered and imported                                                   *)
run_saved_search(search_id) ==
    /\ UNCHANGED <<now, search_seq>>
    /\ app = "resource_scout"
    /\ IF ~SearchExists(searches, search_id)
       THEN /\ ret' = [NoRet EXCEPT !.status = 404]
            /\ UNCHANGED <<table, jobs_df, fetchLog>>
       ELSE \E s \in {get_search_by_id(searches, data_sources, search_id)} :
            IF IsRss(s)
            THEN \E f \in {test_rss_feeds(OrElse(s.keywords, Python),
                                           OrElse(s.location, Remote),
                                           scout_feeds(OrElse(s.data_source_url, NULL)),
                                           net, app)} :
                 \E df \in {filter_jobs(f.rows, NoTerms, NoTerms)} :
                     /\ jobs_df' = f.rows
                     /\ fetchLog' = f.log
                     /\ table' = ResourceImportLoop(table, df, 1, 0).rows
                     /\ ret' = [NoRet EXCEPT !.status = 302]
            ELSE /\ ret' = [NoRet EXCEPT !.status = 302]
                 /\ UNCHANGED <<table, jobs_df, fetchLog>>
    /\ call' = [op |-> "run_saved_search", search_id |-> search_id]
    /\ pre' = table
    /\ again' = FALSE
    /\ UNCHANGED <<app, net, data_sources, searches, threads>>

-----------------------------------------------------------------------------
(* resource_scout.py served by app.run(): the development server answers   *)
(* each request on a thread of its own, and the threads share the tester   *)
(* object resource_search_tester and the database.  A request that fetches *)
(* takes two steps, split where the tester's buffer is written and where   *)
(* it is read back: the call of test_rss_feeds, then filter_resources with *)
(* the import loop.                                                        *)

(* POST /search, first step: the form is read and test_rss_feeds fills the *)
(* shared buffer                                                           *)
search_resources_fetch(t, form_keywords, form_location) ==
    /\ UNCHANGED <<now, search_seq>>
    /\ app = "resource_scout"
    /\ threads[t] = Idle
    /\ LET keywords == FormGet(form_keywords, PythonDeveloper)
           location == FormGet(form_location, Remote)
       IN  \E f \in {test_rss_feeds(keywords, location, scout_feeds(NULL), net, app)} :
               /\ jobs_df' = f.rows
               /\ fetchLog' = f.log
    /\ threads' = [threads EXCEPT ![t] = [op |-> "search_resources",
                                          keywords |-> form_keywords,
                                          location |-> form_location]]
    /\ UNCHANGED <<app, net, table, call, ret, pre, again, data_sources, searches>>

(* POST /search, second step: filter_resources reads the shared buffer,    *)
(* the loop imports what it returned, and the counts are sent              *)
search_resources_import(t) ==
    /\ UNCHANGED <<now, search_seq>>
    /\ app = "resource_scout"
    /\ threads[t].op = "search_resources"
    /\ \E df \in {filter_jobs(jobs_df, NoTerms, NoTerms)} :
       \E r \in {ResourceImportLoop(table, df, 1, 0)} :
           /\ table' = r.rows
           /\ ret' = [NoRet EXCEPT !.imported = r.new_count,
                                    !.total_fetched = Len(df),
                                    !.status = 200]
    /\ call' = [op |-> "search_resources", keywords |-> threads[t].keywords,
                location |-> threads[t].location]
    /\ pre' = table
    /\ again' = FALSE
    /\ threads' = [threads EXCEPT ![t] = Idle]
    /\ UNCHANGED <<app, net, jobs_df, fetchLog, data_sources, searches>>

(* POST /savedsearches/<search_id>/run, first step: the search is looked   *)
(* up; an unknown id is answered 404, a source that is not RSS with the    *)
(* redirect; for an RSS source test_rss_feeds fills the shared buffer      *)
run_saved_search_fetch(t, search_id) ==
    /\ UNCHANGED <<now, search_seq>>
    /\ app = "resource_scout"
    /\ threads[t] = Idle
    /\ IF ~SearchExists(searches, search_id)
       THEN /\ ret' = [NoRet EXCEPT !.status = 404]
            /\ call' = [op |-> "run_saved_search", search_id |-> search_id]
            /\ pre' = table
            /\ UNCHANGED <<jobs_df, fetchLog, threads>>
       ELSE \E s \in {get_search_by_id(searches, data_sources, search_id)} :
            IF IsRss(s)
            THEN \E f \in {test_rss_feeds(OrElse(s.keywords, Python),
                                           OrElse(s.location, Remote),
                                           scout_feeds(OrElse(s.data_source_url, NULL)),
                                           net, app)} :
                     /\ jobs_df' = f.rows
                     /\ fetchLog' = f.log
                     /\ threads' = [threads EXCEPT ![t] =
                                       [op |-> "run_saved_search",
                                        search_id |-> search_id]]
                     /\ UNCHANGED <<call, ret, pre>>
            ELSE /\ ret' = [NoRet EXCEPT !.status = 302]
                 /\ call' = [op |-> "run_saved_search", search_id |-> search_id]
                 /\ pre' = table
                 /\ UNCHANGED <<jobs_df, fetchLog, threads>>
    /\ again' = FALSE
    /\ UNCHANGED <<app, net, table, data_sources, searches>>

(* POST /savedsearches/<search_id>/run, second step: filter_resources      *)
(* reads the shared buffer, each row goes to add_resource, the redirect is *)
(* sent                                                                    *)
run_saved_search_import(t) ==
    /\ UNCHANGED <<now, search_seq>>
    /\ app = "resource_scout"
    /\ threads[t].op = "run_saved_search"
    /\ \E df \in {filter_jobs(jobs_df, NoTerms, NoTerms)} :
           table' = ResourceImportLoop(table, df, 1, 0).rows
    /\ ret' = [NoRet EXCEPT !.status = 302]
    /\ call' = [op |-> "run_saved_search", search_id |-> threads[t].search_id]
    /\ pre' = table
    /\ again' = FALSE
    /\ threads' = [threads EXCEPT ![t] = Idle]
    /\ UNCHANGED <<app, net, jobs_df, fetchLog, data_sources, searches>>

-----------------------------------------------------------------------------
(* resource_tracker.py *)

(* db.add_resources(resources_df) *)
AddResources(resources_df) ==
    /\ UNCHANGED <<now, search_seq>>
    /\ app = "resource_tracker"
    /\ \E r \in {add_resources(table, resources_df)} :
           /\ table' = r.rows
           /\ ret' = [NoRet EXCEPT !.raised = r.raised,
                                    !.new_resources = r.new_resources,
                                    !.duplicates = r.duplicates]
    /\ call' = [op |-> "add_resources", batch |-> resources_df]
    /\ pre' = table
    /\ again' = (call.op = "add_resources" /\ call.batch = resources_df /\ ~ret.raised)
    /\ UNCHANGED <<app, net, jobs_df, fetchLog, data_sources, searches, threads>>

(* resourcesearchTester.save_to_db with self.resources_df = resources_df   *)
(* (the method that fills the buffer is not part of the file): an empty    *)
(* buffer is not handed to the store                                       *)
save_to_db(resources_df) ==
    /\ UNCHANGED <<now, search_seq>>
    /\ app = "resource_tracker"
    /\ \E r \in {IF resources_df # <<>>
                 THEN add_resources(table, resources_df)
                 ELSE [rows |-> table, raised |-> FALSE,
                       new_resources |-> 0, duplicates |-> 0]} :
           /\ table' = r.rows
           /\ ret' = [NoRet EXCEPT !.raised = r.raised,
                                    !.new_resources = r.new_resources,
                                    !.duplicates = r.duplicates]
    /\ call' = [op |-> "save_to_db", batch |-> resources_df]
    /\ pre' = table
    /\ again' = FALSE
    /\ UNCHANGED <<app, net, jobs_df, fetchLog, data_sources, searches, threads>>

(* POST /api/resources/<int:resource_id>/status/<status> *)
update_status(resource_id, status) ==
    /\ app = "resource_tracker"
    /\ table' = update_resource_status(table, resource_id, status)
    /\ call' = [op |-> "update_status", resource_id |-> resource_id,
                status |-> status]
    /\ ret' = [NoRet EXCEPT !.status = 200]
    /\ pre' = table
    /\ again' = (call.op = "update_status" /\ call.resource_id = resource_id
                 /\ call.status = status)
    /\ UNCHANGED <<app, net, jobs_df, fetchLog, data_sources, searches, threads,
                   now, search_seq>>

(* db.add_resource_note(resource_id, note) *)
AddResourceNote(resource_id, note) ==
    /\ app = "resource_tracker"
    /\ table' = add_resource_note(table, resource_id, note)
    /\ call' = [op |-> "add_resource_note", resource_id |-> resource_id,
                note |-> note]
    /\ ret' = NoRet
    /\ pre' = table
    /\ again' = (call.op = "add_resource_note" /\ call.resource_id = resource_id
                 /\ call.note = note)
    /\ UNCHANGED <<app, net, jobs_df, fetchLog, data_sources, searches, threads,
                   now, search_seq>>

(* GET /api/resources: db.get_all_resources() *)
GetAllResources ==
    /\ app = "resource_tracker"
    /\ call' = [op |-> "get_all_resources"]
    /\ ret' = [NoRet EXCEPT !.rows = get_all_resources(table), !.status = 200]
    /\ pre' = table
    /\ again' = FALSE
    /\ UNCHANGED <<app, net, table, jobs_df, fetchLog, data_sources, searches,
                   threads, now, search_seq>>

-----------------------------------------------------------------------------
(* Reading job_bot's and resource_scout's stores, editing and deleting a   *)
(* saved search, a store object made again, and the passing of time        *)

(* GET /jobs?q= *)
list_jobs(query) ==
    /\ app = "job_bot"
    /\ call' = [op |-> "list_jobs", query |-> query]
    /\ ret' = [NoRet EXCEPT !.rows = get_jobs(table, query), !.status = 200]
    /\ pre' = table
    /\ again' = FALSE
    /\ UNCHANGED <<app, net, table, jobs_df, fetchLog, data_sources, searches,
                   threads, now, search_seq>>

(* GET /resources?q= *)
list_resources(query) ==
    /\ app = "resource_scout"
    /\ call' = [op |-> "list_resources", query |-> query]
    /\ ret' = [NoRet EXCEPT !.rows = get_resources(table, query), !.status = 200]
    /\ pre' = table
    /\ again' = FALSE
    /\ UNCHANGED <<app, net, table, jobs_df, fetchLog, data_sources, searches,
                   threads, now, search_seq>>

(* tracker.update_search(search_id, ...), called on the store directly *)
UpdateSearch(search_id, name, keywords, location, is_active, data_source_id) ==
    /\ app = "resource_scout"
    /\ searches' = update_search(searches, search_id, name, keywords, location,
                                 is_active, data_source_id)
    /\ call' = [op |-> "update_search", search_id |-> search_id, name |-> name,
                keywords |-> keywords, location |-> location,
                is_active |-> is_active, data_source_id |-> data_source_id]
    /\ ret' = NoRet
    /\ pre' = table
    /\ again' = FALSE
    /\ UNCHANGED <<app, net, table, jobs_df, fetchLog, data_sources, threads,
                   now, search_seq>>

(* POST /savedsearches/<int:search_id>/edit *)
edit_saved_search(search_id, name, keywords, location, is_active_str, ds_id) ==
    /\ app = "resource_scout"
    /\ searches' = update_search(searches, search_id,
                                 FormGet(name, NULL),
                                 FormGet(keywords, NULL),
                                 FormGet(location, NULL),
                                 IF is_active_str # Absent
                                 THEN {is_active_str = <<"1">>} ELSE {},
                                 DataSourceId(FormGet(ds_id, <<>>)))
    /\ call' = [op |-> "edit_saved_search", search_id |-> search_id]
    /\ ret' = [NoRet EXCEPT !.status = 302]
    /\ pre' = table
    /\ again' = FALSE
    /\ UNCHANGED <<app, net, table, jobs_df, fetchLog, data_sources, threads,
                   now, search_seq>>

(* POST /savedsearches/<int:search_id>/delete *)
delete_saved_search(search_id) ==
    /\ app = "resource_scout"
    /\ searches' = delete_search(searches, search_id)
    /\ call' = [op |-> "delete_saved_search", search_id |-> search_id]
    /\ ret' = [NoRet EXCEPT !.status = 302]
    /\ pre' = table
    /\ again' = FALSE
    /\ UNCHANGED <<app, net, table, jobs_df, fetchLog, data_sources, threads,
                   now, search_seq>>

(* JobTracker(), resourceTracker(), resourceDatabase() made again on the   *)
(* same file: init_db runs CREATE TABLE IF NOT EXISTS, and ALTER TABLE ADD *)
(* COLUMN only for a column the table lacks                                *)
init_db ==
    /\ app \in {"job_bot", "resource_scout", "resource_tracker"}
    /\ call' = [op |-> "init_db"]
    /\ ret' = NoRet
    /\ pre' = table
    /\ again' = FALSE
    /\ UNCHANGED <<app, net, table, jobs_df, fetchLog, data_sources, searches,
                   threads, now, search_seq>>

-----------------------------------------------------------------------------
(* Two imports at once: job_bot's requests are served on threads, and each *)
(* add_job opens a connection of its own; resource_tracker's add_resources *)
(* may run in two processes on one database file.  A call takes two steps, *)
(* split between its SELECT and its INSERT.                                *)

(* add_job, first step: SELECT * FROM jobs WHERE url = ?; a row found ends *)
(* the call with False                                                     *)
add_job_check(t, job) ==
    /\ app = "job_bot"
    /\ threads[t] = Idle
    /\ IF UrlExists(table, job.url)
       THEN /\ call' = [op |-> "add_job", item |-> job, step |-> "check"]
            /\ ret' = NoRet
            /\ pre' = table
            /\ UNCHANGED threads
       ELSE /\ threads' = [threads EXCEPT ![t] = [op |-> "add_job", item |-> job]]
            /\ UNCHANGED <<call, ret, pre>>
    /\ again' = FALSE
    /\ UNCHANGED <<app, net, table, jobs_df, fetchLog, data_sources, searches,
                   now, search_seq>>

(* add_job, second step: INSERT INTO jobs and commit.  url TEXT UNIQUE:    *)
(* the insert of a url that is stored by now raises                        *)
(* sqlite3.IntegrityError, which add_job does not handle                   *)
add_job_insert(t) ==
    /\ app = "job_bot"
    /\ threads[t].op = "add_job"
    /\ IF UrlExists(table, threads[t].item.url)
       THEN /\ ret' = [NoRet EXCEPT !.raised = TRUE]
            /\ UNCHANGED table
       ELSE /\ table' = Append(table, JobRow(table, threads[t].item))
            /\ ret' = [NoRet EXCEPT !.inserted = TRUE]
    /\ call' = [op |-> "add_job", item |-> threads[t].item, step |-> "insert"]
    /\ pre' = table
    /\ again' = FALSE
    /\ threads' = [threads EXCEPT ![t] = Idle]
    /\ UNCHANGED <<app, net, jobs_df, fetchLog, data_sources, searches,
                   now, search_seq>>

(* add_resources of one candidate, first step: the hash and SELECT id FROM *)
(* resources WHERE resource_hash = ?; a row found ends the call with one   *)
(* duplicate                                                               *)
add_resources_check(t, resource) ==
    /\ app = "resource_tracker"
    /\ threads[t] = Idle
    /\ IF HashRaises(resource)
       THEN /\ call' = [op |-> "add_resources", item |-> resource, step |-> "check"]
            /\ ret' = [NoRet EXCEPT !.raised = TRUE]
            /\ pre' = table
            /\ UNCHANGED threads
       ELSE IF HashExists(table, generate_resource_hash(resource))
       THEN /\ call' = [op |-> "add_resources", item |-> resource, step |-> "check"]
            /\ ret' = [NoRet EXCEPT !.duplicates = 1]
            /\ pre' = table
            /\ UNCHANGED threads
       ELSE /\ threads' = [threads EXCEPT ![t] = [op |-> "add_resources",
                                                  item |-> resource]]
            /\ UNCHANGED <<call, ret, pre>>
    /\ again' = FALSE
    /\ UNCHANGED <<app, net, table, jobs_df, fetchLog, data_sources, searches,
                   now, search_seq>>

(* add_resources of one candidate, second step: the INSERT inside try, an  *)
(* IntegrityError counted as a duplicate, and the commit                   *)
add_resources_insert(t) ==
    /\ app = "resource_tracker"
    /\ threads[t].op = "add_resources"
    /\ \E resource \in {threads[t].item} :
       \E resource_hash \in {generate_resource_hash(resource)} :
           IF IntegrityError(table, resource, resource_hash)
           THEN /\ ret' = [NoRet EXCEPT !.duplicates = 1]
                /\ UNCHANGED table
           ELSE /\ table' = Append(table, TrackedRow(table, resource, resource_hash))
                /\ ret' = [NoRet EXCEPT !.new_resources = 1]
    /\ call' = [op |-> "add_resources", item |-> threads[t].item,
                step |-> "insert"]
    /\ pre' = table
    /\ again' = FALSE
    /\ threads' = [threads EXCEPT ![t] = Idle]
    /\ UNCHANGED <<app, net, jobs_df, fetchLog, data_sources, searches,
                   now, search_seq>>

-----------------------------------------------------------------------------
(* job_bot.py served by app.run(): each POST /search runs on a thread of   *)
(* its own, and the threads share the module-level job_search_tester and   *)
(* the database.  A request takes three steps: test_rss_feeds, which       *)
(* writes the tester's jobs_df; filter_jobs, which reads it; the loop of   *)
(* add_job over what filter_jobs returned, and the answer.                 *)

(* POST /search, first step: the form is read and test_rss_feeds fills the *)
(* shared buffer; own keeps what this call put there                       *)
search_jobs_fetch(t, form_keywords) ==
    /\ app = "job_bot"
    /\ threads[t] = Idle
    /\ LET keywords == FormGet(form_keywords, PythonDeveloper)
       IN  \E f \in {test_rss_feeds(keywords, Remote,
                                    rss_feeds(FormattedKeywords(keywords)), net, app)} :
               /\ jobs_df' = f.rows
               /\ fetchLog' = f.log
               /\ threads' = [threads EXCEPT ![t] =
                                 [op |-> "search_jobs", step |-> "filter",
                                  keywords |-> form_keywords, own |-> f.rows,
                                  df |-> <<>>]]
    /\ UNCHANGED <<app, net, table, call, ret, pre, again, data_sources, searches,
                   now, search_seq>>

(* POST /search, second step: df = job_search_tester.filter_jobs() reads   *)
(* the shared buffer                                                       *)
search_jobs_filter(t) ==
    /\ app = "job_bot"
    /\ threads[t].op = "search_jobs"
    /\ threads[t].step = "filter"
    /\ threads' = [threads EXCEPT ![t].step = "insert",
                                  ![t].df = filter_jobs(jobs_df, NoTerms, NoTerms)]
    /\ UNCHANGED <<app, net, table, jobs_df, fetchLog, call, ret, pre, again,
                   data_sources, searches, now, search_seq>>

(* POST /search, third step: each row of df goes to add_job, and the       *)
(* counts are sent                                                         *)
search_jobs_insert(t) ==
    /\ app = "job_bot"
    /\ threads[t].op = "search_jobs"
    /\ threads[t].step = "insert"
    /\ \E r \in {JobImportLoop(table, threads[t].df, 1, 0)} :
           /\ table' = r.rows
           /\ ret' = [NoRet EXCEPT !.imported = r.new_count,
                                    !.total_fetched = Len(threads[t].df),
                                    !.status = 200]
    /\ call' = [op |-> "search_jobs", keywords |-> threads[t].keywords,
                own |-> threads[t].own]
    /\ pre' = table
    /\ again' = FALSE
    /\ threads' = [threads EXCEPT ![t] = Idle]
    /\ UNCHANGED <<app, net, jobs_df, fetchLog, data_sources, searches,
                   now, search_seq>>

(* A tick of the clock *)
Tick ==
    /\ now < MaxClock
    /\ now' = now + 1
    /\ UNCHANGED <<app, net, table, jobs_df, fetchLog, call, ret, pre, again,
                   data_sources, searches, threads, search_seq>>

-----------------------------------------------------------------------------

Init ==
    /\ app \in Apps
    /\ net \in [1..NumFeeds(app) -> FeedOutcomes(app)]
    /\ table = <<>>
    /\ jobs_df = <<>>
    /\ fetchLog = <<>>
    /\ call = [op |-> "init"]
    /\ ret = NoRet
    /\ pre = <<>>
    /\ again = FALSE
    /\ data_sources = <<>>
    /\ searches = <<>>
    /\ threads = [t \in ThreadIds |-> Idle]
    /\ now = 0
    /\ search_seq = 0

Next ==
    \/ \E keywords \in KeywordTexts : TestRssFeeds(keywords)
    \/ \E r \in SkillLists, x \in ExcludeLists : FilterJobs(r, x)
    \/ \E job \in JobDicts : AddJob(job)
    \/ \E k \in KeywordTexts \cup {Absent} : search_jobs(k)
    \/ \E resource \in ResourceDicts : AddResource(resource)
    \/ \E k \in KeywordTexts \cup {Absent}, l \in LocationTexts : search_resources(k, l)
    \/ \E batch \in Batches : AddResources(batch)
    \/ \E batch \in Batches : save_to_db(batch)

Spec == Init /\ [][Next]_vars

(* The fetchers by themselves: the tester of job_search_test, and the      *)
(* saved searches of resource_scout, which fetch the feed of a data source *)
InitFetch ==
    /\ Init
    /\ app \in {"job_search_test", "resource_scout"}

NextFetch ==
    \/ \E keywords \in KeywordTexts : TestRssFeeds(keywords)
    \/ \E f \in DataSourceForms :
           manage_data_sources(Absent, f.source_type, Absent, f.source_url)
    \/ \E k \in SearchKeywordTexts, d \in DataSourceIdTexts :
           create_saved_search(Absent, k, Absent, Absent, d)
    \/ \E search_id \in SearchIds : run_saved_search(search_id)

SpecFetch == InitFetch /\ [][NextFetch]_vars

(* resource_scout with its requests on threads *)
InitThreaded ==
    /\ Init
    /\ app = "resource_scout"

NextThreaded ==
    \/ \E f \in DataSourceForms :
           manage_data_sources(Absent, f.source_type, Absent, f.source_url)
    \/ \E k \in SearchKeywordTexts, d \in DataSourceIdTexts :
           create_saved_search(Absent, k, Absent, Absent, d)
    \/ \E t \in ThreadIds, k \in SearchKeywordTexts :
           search_resources_fetch(t, k, Absent)
    \/ \E t \in ThreadIds : search_resources_import(t)
    \/ \E t \in ThreadIds, search_id \in SearchIds : run_saved_search_fetch(t, search_id)
    \/ \E t \in ThreadIds : run_saved_search_import(t)

SpecThreaded == InitThreaded /\ [][NextThreaded]_vars

(* The three stores, one operation at a time.  Only the first feed of a    *)
(* fetch list serves entries; the data sources posted are a feed and an    *)
(* API, and a search is posted with the first data source or none.         *)
InitStore ==
    /\ Init
    /\ app \in {"job_bot", "resource_scout", "resource_tracker"}
    /\ \A i \in DOMAIN net : i > 1 => net[i] = FeedFails

NextStore ==
    \/ init_db
    \/ \E job \in JobDicts : AddJob(job)
    \/ \E k \in SearchKeywordTexts : search_jobs(k)
    \/ \E q \in QueryTexts : list_jobs(q)
    \/ \E resource \in ResourceDicts : AddResource(resource)
    \/ \E k \in SearchKeywordTexts : search_resources(k, Absent)
    \/ \E q \in QueryTexts : list_resources(q)
    \/ \E f \in {g \in DataSourceForms : g.source_url # Absent
                                          /\ g.source_type # <<"r", "s", "s">>} :
           manage_data_sources(Absent, f.source_type, Absent, f.source_url)
    \/ \E d \in {Absent, <<"1">>} :
           create_saved_search(Absent, <<"a">>, Absent, Absent, d)
    \/ \E search_id \in SearchIds, d \in {Absent, <<"1">>} :
           edit_saved_search(search_id, Absent, <<" ">>, Absent, Absent, d)
    \/ \E search_id \in SearchIds : delete_saved_search(search_id)
    \/ \E search_id \in SearchIds : run_saved_search(search_id)
    \/ \E batch \in StoreBatches : AddResources(batch)
    \/ \E id \in ItemIds, status \in StatusTexts : update_status(id, status)
    \/ \E id \in ItemIds, note \in {<<"n">>, <<>>} : AddResourceNote(id, note)
    \/ GetAllResources

SpecStore == InitStore /\ [][NextStore]_vars

(* The saved searches of resource_scout made, updated and deleted.  The    *)
(* arguments of update_search: each given or None.                         *)
UpdateArgs ==
    [name : { NULL, <<"n">> }, keywords : { NULL, <<"k">> },
     location : { NULL, <<"l">> }, is_active : { {}, {FALSE} },
     data_source_id : { {}, {1} }]
    \cup { [name |-> NULL, keywords |-> NULL, location |-> NULL,
            is_active |-> {TRUE}, data_source_id |-> {}] }

NextSearches ==
    \/ create_saved_search(Absent, <<"a">>, Absent, Absent, Absent)
    \/ \E search_id \in SearchIds, a \in UpdateArgs :
           UpdateSearch(search_id, a.name, a.keywords, a.location, a.is_active,
                        a.data_source_id)
    \/ \E search_id \in SearchIds : delete_saved_search(search_id)

SpecSearches == InitThreaded /\ [][NextSearches]_vars

(* Imports of job_bot and of resource_tracker that overlap *)
InitRace ==
    /\ InitStore
    /\ app \in {"job_bot", "resource_tracker"}
    /\ \A i \in DOMAIN net : net[i] = FeedFails

NextRace ==
    \/ \E t \in ThreadIds, job \in JobDicts : add_job_check(t, job)
    \/ \E t \in ThreadIds : add_job_insert(t)
    \/ \E t \in ThreadIds, resource \in TrackedDicts : add_resources_check(t, resource)
    \/ \E t \in ThreadIds : add_resources_insert(t)

SpecRace == InitRace /\ [][NextRace]_vars

(* POST /search requests of job_bot that overlap *)
InitOverlap ==
    /\ InitStore
    /\ app = "job_bot"

NextOverlap ==
    \/ \E t \in ThreadIds, k \in KeywordTexts : search_jobs_fetch(t, k)
    \/ \E t \in ThreadIds : search_jobs_filter(t)
    \/ \E t \in ThreadIds : search_jobs_insert(t)

SpecOverlap == InitOverlap /\ [][NextOverlap]_vars

(* The three stores written and read while the clock goes on.  Among the   *)
(* candidates of the url-keyed stores is a second one without a link.      *)
NextClock ==
    \/ Tick
    \/ \E job \in JobDicts \cup {[JobU2 EXCEPT !.url = <<>>]} : AddJob(job)
    \/ \E k \in KeywordTexts : search_jobs(k)
    \/ list_jobs(Absent)
    \/ \E resource \in ResourceDicts \cup {[ResU2 EXCEPT !.url = <<>>]} :
           AddResource(resource)
    \/ list_resources(Absent)
    \/ \E batch \in StoreBatches : AddResources(batch)
    \/ GetAllResources

SpecClock == InitStore /\ [][NextClock]_vars

-----------------------------------------------------------------------------
(* What the claims read off a state *)

UrlKeyed == app \in {"job_bot", "resource_scout"}

(* The saved search the last operation ran *)
LastSearch == get_search_by_id(searches, data_sources, call.search_id)

(* The last operation ran test_rss_feeds *)
Fetched ==
    \/ call.op \in {"test_rss_feeds", "search_jobs", "search_resources"}
    \/ /\ call.op = "run_saved_search"
       /\ SearchExists(searches, call.search_id)
       /\ IsRss(LastSearch)

LastKeywords ==
    IF call.op = "run_saved_search" THEN OrElse(LastSearch.keywords, Python)
    ELSE FormGet(call.keywords, PythonDeveloper)

LastLocation ==
    CASE call.op = "run_saved_search" -> OrElse(LastSearch.location, Remote)
      [] call.op = "search_resources" -> FormGet(call.location, Remote)
      [] OTHER -> Remote

(* The fetch list of the last fetch *)
LastFeeds ==
    CASE call.op = "run_saved_search" ->
             scout_feeds(OrElse(LastSearch.data_source_url, NULL))
      [] call.op = "search_resources" -> scout_feeds(NULL)
      [] OTHER -> rss_feeds(FormattedKeywords(LastKeywords))

(* The rows the last fetch appended while it processed locator i *)
Contribution(i) == SubSeq(jobs_df, fetchLog[i].from + 1, fetchLog[i].to)

(* Every entry feed i served, as the dict the fetcher builds from it *)
ServedItems(i) ==
    LET segments == SplitOn(LastFeeds[i], "/")
    IN  [k \in 1..Len(net[i].entries) |->
            MakeItem(net[i].entries[k], segments, LastLocation, app)]

(* The entries of feed i that match a keyword of the last fetch, in order *)
MatchingItems(i) ==
    LET Matches(item) == KeywordMatch(item, SplitWs(LastKeywords))
    IN  SelectSeq(ServedItems(i), Matches)

(* The rows of the table as it is now that the last operation added *)
Added == SubSeq(table, Len(pre) + 1, Len(table))

Columns == {"title", "company", "url", "description", "date_posted", "source",
            "location", "work_status"}

(* term occurs case-insensitively, as a literal, in the title or description *)
Occurs(term, row) ==
    \/ Contains(ToLower(term), ToLower(row.title))
    \/ Contains(ToLower(term), ToLower(row.description))

-----------------------------------------------------------------------------
(* C1: no two stored rows share a dedup key (the url in job_bot and        *)
(* resource_scout; the resource_hash, and the url, in resource_tracker),   *)
(* and no operation overwrites or alters a row stored before it: the table *)
(* before the operation is a prefix of the table after it.                 *)
C1_UniqueKeys ==
    /\ \A i, j \in 1..Len(table) : i # j => table[i].url # table[j].url
    /\ app = "resource_tracker" =>
          \A i, j \in 1..Len(table) :
              i # j => table[i].resource_hash # table[j].resource_hash
    /\ \A i, j \in 1..Len(table) : i # j => table[i].id # table[j].id
    /\ Len(pre) <= Len(table)
    /\ SubSeq(table, 1, Len(pre)) = pre

(* A batch whose second candidate has the url of the first under another   *)
(* hash has been handed to the store, and one row was stored.              *)
C1_Witness ==
    /\ call.op = "add_resources"
    /\ ~ret.raised
    /\ Len(call.batch) = 2
    /\ call.batch[1].url = call.batch[2].url
    /\ generate_resource_hash(call.batch[1]) # generate_resource_hash(call.batch[2])
    /\ Len(table) = 1
    /\ ret.new_resources = 1
    /\ ret.duplicates = 1

C3_BatchCounts ==
    (call.op \in {"add_resources", "save_to_db"} /\ call.batch # <<>>
        /\ ~ret.raised) =>
        LET batch == call.batch
            first == batch[1]
            From(k) == CHOOSE i \in 1..Len(batch) :
                          /\ generate_resource_hash(batch[i]) = Added[k].resource_hash
                          /\ \A j \in 1..(i - 1) :
                                generate_resource_hash(batch[j]) # Added[k].resource_hash
        IN  /\ ret.new_resources + ret.duplicates = Len(batch)
            /\ ret.new_resources = Len(table) - Len(pre)
            /\ SubSeq(table, 1, Len(pre)) = pre
            /\ \A k \in 1..Len(Added) :
                  \E i \in 1..Len(batch) :
                      /\ generate_resource_hash(batch[i]) = Added[k].resource_hash
                      /\ batch[i].url = Added[k].url
                      /\ batch[i].title = Added[k].title
            /\ \A k, m \in 1..Len(Added) : k < m => From(k) < From(m)
            /\ (/\ ~HashExists(pre, generate_resource_hash(first))
                /\ ~UrlExists(pre, first.url))
               => (/\ Len(Added) >= 1
                   /\ Added[1].url = first.url
                   /\ Added[1].resource_hash = generate_resource_hash(first))

(* A batch of two has been added: one candidate new, one a duplicate. *)
C3_Witness ==
    /\ call.op = "add_resources"
    /\ ~ret.raised
    /\ Len(call.batch) = 2
    /\ ret.new_resources = 1
    /\ ret.duplicates = 1
    /\ Len(table) = Len(pre) + 1
    /\ Len(pre) = 1

(* The keys of the candidates of a batch, and what the claim asks of them *)
NoKeyHeld(rows, batch) ==
    \A i \in 1..Len(batch) :
        /\ ~HashRaises(batch[i])
        /\ ~HashExists(rows, generate_resource_hash(batch[i]))
        /\ ~UrlExists(rows, batch[i].url)

DistinctKeys(batch) ==
    \A i, j \in 1..Len(batch) :
        i # j => /\ batch[i].url # batch[j].url
                 /\ generate_resource_hash(batch[i]) # generate_resource_hash(batch[j])

(* C4, as the spec states it: a first run of add_resources(B) on a store   *)
(* that holds none of B's keys reports newCount = len(B); a second run     *)
(* right after it reports (0, len(B)) and leaves the rows as they are.     *)
C4_Original ==
    [][(call'.op = "add_resources" /\ ~ret'.raised) =>
          /\ NoKeyHeld(table, call'.batch) =>
                ret'.new_resources = Len(call'.batch)
          /\ (again' /\ NoKeyHeld(pre, call'.batch)) =>
                (/\ ret'.new_resources = 0
                 /\ ret'.duplicates = Len(call'.batch)
                 /\ table' = table)]_vars

(* C4, amended: for a batch B whose candidates have pairwise distinct      *)
(* hashes and pairwise distinct urls, on a store that holds none of B's    *)
(* keys, the first run reports (len(B), 0), and a second run right after   *)
(* it reports (0, len(B)) and leaves the rows as they are.                 *)
C4_TwoRuns ==
    [][(call'.op = "add_resources" /\ ~ret'.raised /\ DistinctKeys(call'.batch)) =>
          /\ NoKeyHeld(table, call'.batch) =>
                (/\ ret'.new_resources = Len(call'.batch)
                 /\ ret'.duplicates = 0
                 /\ Len(table') = Len(table) + Len(call'.batch))
          /\ (again' /\ NoKeyHeld(pre, call'.batch)) =>
                (/\ ret'.new_resources = 0
                 /\ ret'.duplicates = Len(call'.batch)
                 /\ table' = table)]_vars

(* The same batch of two distinct candidates has been run twice in a row   *)
(* on a store that was empty: the second run found two duplicates.         *)
C4_Witness ==
    /\ call.op = "add_resources"
    /\ again
    /\ Len(call.batch) = 2
    /\ DistinctKeys(call.batch)
    /\ ret.new_resources = 0
    /\ ret.duplicates = 2
    /\ Len(table) = 2
    /\ table = pre

(* C5: the count POST /search of job_bot reports as imported is the number *)
(* of rows the request added to the jobs table, and total_fetched is the   *)
(* size of the filtered set; a set of one entry whose url is stored        *)
(* reports imported = 0 with total_fetched = 1.                            *)
C5_SearchCounts ==
    call.op = "search_jobs" =>
        /\ ret.imported = Len(table) - Len(pre)
        /\ SubSeq(table, 1, Len(pre)) = pre
        /\ ret.total_fetched = Len(filter_jobs(jobs_df, NoTerms, NoTerms))
        /\ ret.total_fetched = Len(jobs_df)
        /\ (Len(jobs_df) = 1 /\ UrlExists(pre, jobs_df[1].url)) =>
              (ret.imported = 0 /\ ret.total_fetched = 1)

(* POST /search fetched one entry whose url was stored under another       *)
(* title, and reported imported = 0, total_fetched = 1.                    *)
C5_Witness ==
    /\ call.op = "search_jobs"
    /\ Len(jobs_df) = 1
    /\ UrlExists(pre, jobs_df[1].url)
    /\ \E i \in 1..Len(pre) : pre[i].title # jobs_df[1].title
    /\ ret.imported = 0
    /\ ret.total_fetched = 1

(* C6, as the spec states it: the number POST /search of resource_scout    *)
(* reports as imported is the number of candidates for which add_resource  *)
(* inserted a row, that is, the number of rows its import loop added.      *)
C6_ImportedIsInserted ==
    call.op = "search_resources" => ret.imported = Len(table) - Len(pre)

(* C7: whatever locators fail, test_rss_feeds visits every locator of its  *)
(* list in order, returns to its caller, and its result holds, for every   *)
(* locator that did not fail, all matching entries of that feed in order.  *)
C7_EveryFeedVisited ==
    Fetched =>
        /\ ~ret.raised
        /\ Len(fetchLog) = Len(LastFeeds)
        /\ \A i \in 1..Len(fetchLog) :
              /\ fetchLog[i].url = LastFeeds[i]
              /\ fetchLog[i].from = (IF i = 1 THEN 0 ELSE fetchLog[i - 1].to)
              /\ fetchLog[i].from <= fetchLog[i].to
              /\ ~fetchLog[i].failed => Contribution(i) = MatchingItems(i)
        /\ Len(jobs_df) = (IF fetchLog = <<>> THEN 0 ELSE fetchLog[Len(fetchLog)].to)

(* A locator failed and a later locator of the same fetch contributed. *)
C7_Witness ==
    /\ Fetched
    /\ \E i, j \in 1..Len(fetchLog) :
           /\ i < j
           /\ fetchLog[i].failed
           /\ ~fetchLog[j].failed
           /\ Contribution(j) # <<>>

(* C8, as the spec states it: a feed whose processing raised contributes   *)
(* no entry to the result.                                                 *)
C8_FailedFeedEmpty ==
    Fetched => \A i \in 1..Len(fetchLog) :
                   fetchLog[i].failed => Contribution(i) = <<>>

(* C9, as the spec states it: filter_jobs returns exactly the buffered     *)
(* entries, in order, in which every required term occurs and no exclude   *)
(* term occurs, case-insensitively, in the title or the description.       *)
C9_FilterIsLiteral ==
    call.op = "filter_jobs" =>
        LET Kept(row) ==
                /\ \A k \in 1..Len(call.required_skills.list) :
                       Occurs(call.required_skills.list[k], row)
                /\ \A k \in 1..Len(call.exclude_keywords.list) :
                       ~Occurs(call.exclude_keywords.list[k], row)
        IN  ret.rows = SelectSeq(jobs_df, Kept)

(* C10, as the spec states it: with no include term (an empty or blank     *)
(* keywords string) test_rss_feeds keeps every entry of every feed that    *)
(* did not fail.                                                           *)
C10_NoKeywordsIdentity ==
    (Fetched /\ SplitWs(LastKeywords) = <<>>) =>
        \A i \in 1..Len(fetchLog) :
            ~fetchLog[i].failed => Contribution(i) = ServedItems(i)

-----------------------------------------------------------------------------
(* The content of an item *)
Content(r) == <<r.id, r.title, r.company, r.url, r.description,
                r.date_posted, r.source>>

(* C11: whatever operation runs (an import, a status or note update, a     *)
(* data source or saved search made, edited, deleted or run, init_db       *)
(* again), every item that was stored before it is still returned by the   *)
(* unfiltered query after it, with the same id, title, company, url,       *)
(* description, date_posted and source.                                    *)
C11_ItemsKept ==
    [][LET Unfiltered ==
               CASE app = "job_bot" -> get_jobs(table', Absent)
                 [] app = "resource_scout" -> get_resources(table', Absent)
                 [] OTHER -> get_all_resources(table')
       IN  \A i \in 1..Len(table) :
               \E k \in 1..Len(Unfiltered) :
                   Content(Unfiltered[k]) = Content(table[i])]_vars

(* A stored item had its notes set, and it is still there *)
C11_Witness ==
    /\ call.op = "add_resource_note"
    /\ \E i \in 1..Len(pre) : pre[i].id = call.resource_id
    /\ table # pre

-----------------------------------------------------------------------------
(* C12: after update_resource_status(id, s) the query shows status s for   *)
(* the item id, and every other column of it and every other item is as it *)
(* was; add_resource_note(id, n) changes the notes of the item id only.    *)
C12_UpdateFrame ==
    LET Updated(column, value) ==
            /\ Len(table) = Len(pre)
            /\ \A i \in 1..Len(pre) :
                   \A c \in DOMAIN pre[i] :
                       table[i][c] = IF pre[i].id = call.resource_id /\ c = column
                                     THEN value ELSE pre[i][c]
    IN
    /\ call.op = "update_status" =>
           /\ Updated("status", call.status)
           /\ \A k \in 1..Len(get_all_resources(table)) :
                  get_all_resources(table)[k].id = call.resource_id
                      => get_all_resources(table)[k].status = call.status
    /\ call.op = "add_resource_note" =>
           Updated("notes", call.note)

(* The status of one of two stored items was changed *)
C12_Witness ==
    /\ call.op = "update_status"
    /\ Len(pre) > 1
    /\ \E i \in 1..Len(pre) :
           pre[i].id = call.resource_id /\ pre[i].status # call.status

(* C13: in resource_tracker the status of every stored item is one of new, *)
(* interested, applied, rejected.                                          *)
C13_StatusInSet ==
    app = "resource_tracker" =>
        \A i \in 1..Len(table) :
            table[i].status \in
                { New, <<"i", "n", "t", "e", "r", "e", "s", "t", "e", "d">>,
                  Applied, <<"r", "e", "j", "e", "c", "t", "e", "d">> }

(* C18: update_resource_status and add_resource_note with an id no item    *)
(* has do not raise and leave the store as it was; the same update done a  *)
(* second time changes nothing more.                                       *)
C18_UnknownIdAndRepeat ==
    call.op \in {"update_status", "add_resource_note"} =>
        /\ ~ret.raised
        /\ (\A i \in 1..Len(pre) : pre[i].id # call.resource_id) => table = pre
        /\ again => table = pre

(* The note of a stored item was set a second time to the same text *)
C18_Witness ==
    /\ call.op = "add_resource_note"
    /\ again
    /\ call.note # <<>>
    /\ \E i \in 1..Len(pre) : pre[i].id = call.resource_id

-----------------------------------------------------------------------------
(* The saved search s is joined with a data source of type RSS (in any     *)
(* letter case) that has a source url                                      *)
RssWithUrl(s) ==
    /\ s.data_source_type # NULL
    /\ ToUpper(s.data_source_type) = RSS
    /\ s.data_source_url # NULL
    /\ s.data_source_url # <<>>

(* C14: a run of an existing saved search changes the item table only when *)
(* its data source is of type RSS with a source url, and then the one feed *)
(* fetched is that url; with any other data source (API, another type, no  *)
(* data source or a dangling data_source_id, RSS without url) the run      *)
(* fetches no feed, inserts nothing and is answered with the redirect.     *)
C14_RunOnlyRssWithUrl ==
    [][(call'.op = "run_saved_search" /\ SearchExists(searches, call'.search_id)) =>
          LET s == get_search_by_id(searches, data_sources, call'.search_id)
          IN  /\ ~ret'.raised
              /\ ret'.status = 302
              /\ RssWithUrl(s) =>
                     /\ Len(fetchLog') = 1
                     /\ fetchLog'[1].url = s.data_source_url
              /\ ~RssWithUrl(s) =>
                     /\ table' = table
                     /\ fetchLog' = <<>> \/ fetchLog' = fetchLog]_vars

(* A run of a saved search on an RSS data source stored an item *)
C14_Witness ==
    /\ call.op = "run_saved_search"
    /\ SearchExists(searches, call.search_id)
    /\ RssWithUrl(LastSearch)
    /\ Len(table) > Len(pre)

-----------------------------------------------------------------------------
(* C15: update_search(search_id, ...) gives the saved search search_id the *)
(* new value of each field that is supplied (not None) among name,         *)
(* keywords, location, is_active, data_source_id, and leaves its other     *)
(* fields, every other saved search, the data sources and the items as     *)
(* they were; a call that supplies no field changes nothing.               *)
C15_PartialUpdate ==
    [][call'.op = "update_search" =>
          /\ table' = table
          /\ data_sources' = data_sources
          /\ Len(searches') = Len(searches)
          /\ \A i \in 1..Len(searches) :
                 LET old == searches[i]
                     new == searches'[i]
                 IN  IF old.id # call'.search_id THEN new = old
                     ELSE /\ new.id = old.id
                          /\ new.name = IF call'.name # NULL
                                         THEN call'.name ELSE old.name
                          /\ new.keywords = IF call'.keywords # NULL
                                             THEN call'.keywords ELSE old.keywords
                          /\ new.location = IF call'.location # NULL
                                             THEN call'.location ELSE old.location
                          /\ (new.is_active # 0) =
                                 IF call'.is_active # {}
                                 THEN TRUE \in call'.is_active
                                 ELSE old.is_active # 0
                          /\ new.data_source_id =
                                 IF call'.data_source_id # {}
                                 THEN call'.data_source_id
                                 ELSE old.data_source_id
          /\ ( /\ call'.name = NULL /\ call'.keywords = NULL
               /\ call'.location = NULL /\ call'.is_active = {}
               /\ call'.data_source_id = {} ) => searches' = searches]_vars

(* update_search was given a name and is_active = False, and nothing else, *)
(* for a saved search that exists                                          *)
C15_Witness ==
    /\ call.op = "update_search"
    /\ SearchExists(searches, call.search_id)
    /\ call.name # NULL
    /\ call.is_active = {FALSE}
    /\ call.keywords = NULL
    /\ call.data_source_id = {}
    /\ ~LastSearch.is_active
    /\ LastSearch.name = call.name
    /\ LastSearch.keywords = <<"a">>

-----------------------------------------------------------------------------
(* C16: add_resources completes for every batch, also one with a candidate *)
(* that lacks a required field such as title: that candidate is skipped    *)
(* and counted as an error, the others are processed, and new + duplicates *)
(* + errors is the length of the batch.                                    *)
C16_FaultySkipped ==
    call.op = "add_resources" =>
        /\ ~ret.raised
        /\ ret.new_resources + ret.duplicates
               + Cardinality({i \in 1..Len(call.batch) : HashRaises(call.batch[i])})
               = Len(call.batch)
        /\ ret.new_resources = Len(table) - Len(pre)

-----------------------------------------------------------------------------
(* C19: get_jobs(q) and get_resources(q) return every item when q is       *)
(* absent, and otherwise exactly the items whose title or company holds q  *)
(* as a literal substring, letter case set aside.                          *)
C19_QueryIsLiteral ==
    call.op \in {"list_jobs", "list_resources"} =>
        LET HoldsLiterally(q, text) ==
                text # NULL /\ Contains(ToLower(q), ToLower(text))
        IN
        ret.rows = IF call.query = Absent THEN table
                   ELSE SelectSeq(table,
                                  LAMBDA r : \/ HoldsLiterally(call.query, r.title)
                                             \/ HoldsLiterally(call.query, r.company))

-----------------------------------------------------------------------------
(* C20: the unfiltered query of each store (get_all_resources, get_jobs(), *)
(* get_resources()) returns the newest item first: no item comes after an  *)
(* item with an earlier date_added.                                        *)
C20_NewestFirst ==
    (\/ call.op = "get_all_resources"
     \/ call.op \in {"list_jobs", "list_resources"} /\ call.query = Absent) =>
        \A i, j \in 1..Len(ret.rows) :
            i < j => ret.rows[i].date_added >= ret.rows[j].date_added

-----------------------------------------------------------------------------
(* C17: when two imports overlap and both pass the existence check for one *)
(* key before either inserts, the insert that comes second is refused by   *)
(* the uniqueness constraint and handled as a duplicate (add_job returns   *)
(* False, add_resources counts a duplicate): no error escapes, and one row *)
(* holds the key.  The key of an item is its url in job_bot and its hash   *)
(* in resource_tracker.                                                    *)
C17_RaceIsDuplicate ==
    LET HoldKey(rows, item) ==
            {i \in 1..Len(rows) :
                IF app = "job_bot" THEN rows[i].url = item.url
                ELSE rows[i].resource_hash = generate_resource_hash(item)}
    IN
    (/\ call.op \in {"add_job", "add_resources"}
     /\ call.step = "insert"
     /\ HoldKey(pre, call.item) # {}) =>
        /\ ~ret.raised
        /\ ~ret.inserted
        /\ ret.new_resources = 0
        /\ app = "resource_tracker" => ret.duplicates = 1
        /\ table = pre
        /\ Cardinality(HoldKey(table, call.item)) = 1

-----------------------------------------------------------------------------
-----------------------------------------------------------------------------
(* C21: when two POST /search requests of job_bot overlap, in whatever     *)
(* order their fetch, filter and insert steps come, the buffer a request's *)
(* filter_jobs reads is the one its own test_rss_feeds wrote: the request  *)
(* reports as total_fetched, and inserts, only entries of its own fetch.   *)
C21_OwnFetchOnly ==
    /\ \A t \in ThreadIds :
           (threads[t].op = "search_jobs" /\ threads[t].step = "insert") =>
               threads[t].df = filter_jobs(threads[t].own, NoTerms, NoTerms)
    /\ (call.op = "search_jobs" /\ app = "job_bot") =>
           /\ ret.total_fetched = Len(filter_jobs(call.own, NoTerms, NoTerms))
           /\ \A i \in (Len(pre) + 1)..Len(table) :
                  \E k \in 1..Len(call.own) :
                      /\ call.own[k].url = table[i].url
                      /\ call.own[k].title = table[i].title

====
